---- MODULE Spec2Model ----
(***************************************************************************)
(* A model of lib/base.js (BaseModel) and lib/error.js (DbError) of        *)
(* node-mysql-promised.                                                    *)
(*                                                                         *)
(* JavaScript values are tagged records:                                   *)
(*   [t |-> "undef"], [t |-> "null"], [t |-> "bool", v |-> TRUE],          *)
(*   [t |-> "num", v |-> 7], [t |-> "str", v |-> <<atoms>>],               *)
(*   [t |-> "map", v |-> << <<key, value>>, ... >>] (own keys in order),   *)
(*   [t |-> "arr", v |-> <<values>>], [t |-> "fn", v |-> name].            *)
(* A string is a sequence of atoms; an atom is a run of ordinary           *)
(* characters, or one of the single characters the code's regular          *)
(* expressions look for (blank, = < > " % ?).  Concatenation is \o.        *)
(***************************************************************************)
EXTENDS Integers, Sequences, FiniteSets, TLC

VARIABLES
    table,        \* this.table
    pk,           \* this.pk
    constraints,  \* this.constraints: field -> rule specification
    fnCall,       \* the last pure function applied: its name, argument, outcome
    calls,        \* the calls made on the handle, in order: one record each
    tasks,        \* promise-layer callbacks (line 89) scheduled and not yet run
    driverQ,      \* requests the driver has accepted and not yet completed
    db            \* the primary keys of the rows of the table

vars == <<table, pk, constraints, fnCall, calls, tasks, driverQ, db>>

(***************************************************************************)
(* Values                                                                  *)
(***************************************************************************)
Undef == [t |-> "undef"]
Null == [t |-> "null"]
Num(n) == [t |-> "num", v |-> n]
Str(s) == [t |-> "str", v |-> s]
Map(items) == [t |-> "map", v |-> items]
Arr(elems) == [t |-> "arr", v |-> elems]
Fn(name) == [t |-> "fn", v |-> name]
Bool(b) == [t |-> "bool", v |-> b]

Return(value) == [kind |-> "return", value |-> value]
Throw(error) == [kind |-> "throw", error |-> error]

\* lib/error.js: DbError(message, description), with or without new
DbError(message, description) ==
    [t |-> "error", name |-> "DbError", message |-> message, description |-> description]

\* the ReferenceError the engine throws on reading an undeclared name
ReferenceError(what) ==
    [t |-> "error", name |-> "ReferenceError", message |-> what, description |-> Undef]

\* new Error(message)
PlainError(message) ==
    [t |-> "error", name |-> "Error", message |-> message, description |-> Undef]

\* underscore: _.isNumber, _.isString, _.isArray, _.isObject, _.isUndefined
isNumber(x) == x.t = "num"
isString(x) == x.t = "str"
isArray(x) == x.t = "arr"
isObject(x) == x.t \in {"map", "arr", "fn"}
isUndefined(x) == x.t = "undef"

\* JavaScript's ToBoolean, as !x reads it
Truthy(x) ==
    CASE x.t \in {"undef", "null"} -> FALSE
      [] x.t = "num" -> x.v # 0
      [] x.t = "str" -> x.v # <<>>
      [] x.t = "bool" -> x.v
      [] OTHER -> TRUE

\* the own keys of an object, in order (_.keys)
Keys(x) ==
    IF x.t = "map" THEN [i \in 1..Len(x.v) |-> x.v[i][1]] ELSE <<>>

\* property read x[key], key a string; an array has only its indices
Get(x, key) ==
    IF x.t = "map" /\ \E i \in 1..Len(x.v) : x.v[i][1] = key
    THEN x.v[CHOOSE i \in 1..Len(x.v) : x.v[i][1] = key][2]
    ELSE Undef

\* element read x[i] by 0-based index
GetIndex(x, i) ==
    IF x.t = "arr" /\ i + 1 \in 1..Len(x.v) THEN x.v[i + 1] ELSE Undef

\* Array.prototype.join / String(array): the elements with sep between them
RECURSIVE Join(_, _)
Join(strs, sep) ==
    IF strs = <<>> THEN <<>>
    ELSE IF Len(strs) = 1 THEN strs[1]
    ELSE strs[1] \o sep \o Join(Tail(strs), sep)

\* a property key from this.pk: a string is itself, an array is its String()
PropertyKey(p) ==
    IF p.t = "arr" THEN Join([i \in 1..Len(p.v) |-> p.v[i].v], <<",">>) ELSE p.v

(***************************************************************************)
(* The driver's escaping primitives (mysql.escapeId, mysql.escape), as     *)
(* compileConditions calls them                                            *)
(***************************************************************************)
\* String(value), as '%' + value + '%' and RegExp.test convert it
ToStr(x) ==
    CASE x.t = "str" -> x.v
      [] x.t = "num" -> <<ToString(x.v)>>
      [] x.t = "undef" -> <<"undefined">>
      [] x.t = "null" -> <<"null">>
      [] x.t = "bool" -> IF x.v THEN <<"true">> ELSE <<"false">>
      [] OTHER -> <<"[object]">>

\* mysql.escapeId(key): the identifier between backticks (the atom BACKTICK)
escapeId(key) == <<"BACKTICK">> \o key \o <<"BACKTICK">>

EscapeAtom(a) == IF a = "\"" THEN "\\\"" ELSE a

\* mysql.escape(value): a number as its digits, a string quoted, no value as NULL
RECURSIVE escape(_)
escape(x) ==
    CASE x.t = "num" -> <<ToString(x.v)>>
      [] x.t = "str" -> (<<"'">> \o [i \in 1..Len(x.v) |-> EscapeAtom(x.v[i])] \o <<"'">>)
      [] x.t \in {"undef", "null"} -> <<"NULL">>
      [] x.t = "bool" -> IF x.v THEN <<"true">> ELSE <<"false">>
      [] x.t = "arr" -> (Join([i \in 1..Len(x.v) |-> escape(x.v[i])], <<", ">>))
      [] x.t = "map" ->
            Join([i \in 1..Len(x.v) |->
                    escapeId(x.v[i][1]) \o <<" = ">> \o escape(x.v[i][2])], <<", ">>)
      [] OTHER -> <<"NULL">>

(***************************************************************************)
(* compileConditions (base.js 166-213)                                     *)
(***************************************************************************)
\* /^[^\s=<>"]+$/.test(s)
PkShaped(s) ==
    /\ s # <<>>
    /\ \A i \in 1..Len(s) : s[i] \notin {" ", "=", "<", ">", "\""}

\* /[%?]/.test(value)
HasWildcard(x) == \E i \in 1..Len(ToStr(x)) : ToStr(x)[i] \in {"%", "?"}

\* String.prototype.toUpperCase on the atoms the operators and conjunctions use
UpperAtom(a) ==
    CASE a = "like" -> "LIKE"
      [] a = "or" -> "OR"
      [] a = "and" -> "AND"
      [] OTHER -> a

toUpperCase(x) == [i \in 1..Len(x.v) |-> UpperAtom(x.v[i])]

\* lines 167-174: the scalar and raw-string cases.  The else-if reads the
\* undeclared name `condition`, which throws as soon as _.isString holds.
ConditionsHead(p, conditions) ==
    IF isNumber(conditions) \/ (isString(conditions) /\ PkShaped(conditions.v))
    THEN Return(Map(<< <<PropertyKey(p), conditions>> >>))
    ELSE IF isString(conditions)
         THEN Throw(ReferenceError("condition is not defined"))
         ELSE Return(conditions)

\* lines 175-184: a mapping becomes the list of its [key, value] pairs;
\* a list item [key, value] is read by index; _.each of anything else is empty
ConditionItems(conditions) ==
    CASE conditions.t = "map" -> conditions.v
      [] conditions.t = "arr" ->
            [i \in 1..Len(conditions.v) |->
                <<ToStr(GetIndex(conditions.v[i], 0)), GetIndex(conditions.v[i], 1)>>]
      [] OTHER -> <<>>

\* lines 188-210: one item of the loop, str the text so far and i its count
ConditionClause(item, str, i) ==
    LET key == item[1]
        value0 == item[2]
        conj == IF isArray(value0) /\ Len(value0.v) = 3
                THEN toUpperCase(value0.v[3]) ELSE <<"AND">>
        short == isArray(value0) /\ Len(value0.v) < 2
        operator == IF isArray(value0) /\ ~short
                    THEN toUpperCase(value0.v[1]) ELSE <<"=">>
        value1 == IF isArray(value0) /\ ~short THEN value0.v[2] ELSE value0
        value == IF operator = <<"LIKE">> /\ ~HasWildcard(value1)
                 THEN Str(<<"%">> \o ToStr(value1) \o <<"%">>) ELSE value1
        sep == IF i > 0 THEN <<" ">> \o conj \o <<" ">> ELSE <<>>
    IN  IF short
        THEN Throw(DbError("invalid_param", Str(<<"not enough params for condition">>)))
        ELSE Return(str \o sep \o <<"(">> \o escapeId(key) \o <<" ">> \o operator
                        \o <<" ">> \o escape(value) \o <<")">>)

\* lines 185-211: the loop
RECURSIVE ConditionLoop(_, _, _)
RECURSIVE ConditionNext(_, _, _)
ConditionNext(r, items, i) ==
    IF r.kind = "throw" THEN r ELSE ConditionLoop(items, r.value, i + 1)

ConditionLoop(items, str, i) ==
    IF items = <<>> THEN Return(str)
    ELSE ConditionNext(ConditionClause(Head(items), str, i), Tail(items), i)

\* line 212: the text the loop gave, behind WHERE unless it is empty
ConditionsTail(r) ==
    IF r.kind = "throw" THEN r
    ELSE IF r.value # <<>> THEN Return(<<" WHERE ">> \o r.value)
    ELSE Return(<<>>)

\* lines 175-212, h what lines 167-174 left in conditions
ConditionsBody(h) ==
    IF h.kind = "throw" THEN h
    ELSE IF isObject(h.value) /\ ~isArray(h.value) /\ Keys(h.value) = <<>>
    THEN Return(<<>>)
    ELSE ConditionsTail(ConditionLoop(ConditionItems(h.value), <<>>, 0))

\* the whole function, for a handle whose this.pk is p; returns the text
compileConditionsOf(p, conditions) == ConditionsBody(ConditionsHead(p, conditions))

compileConditions(conditions) == compileConditionsOf(pk, conditions)

(***************************************************************************)
(* buildPkCondition (base.js 128-159)                                      *)
(***************************************************************************)
\* the data[key] the composite branch reads: the mapping branch (line 131)
\* takes every object, arrays included, and reads it by field name
CompositeRead(data, key, i) == Get(data, key)

\* lines 132-137 / 139-144: the loop over this.pk, condition the pairs so far
RECURSIVE CompositeLoop(_, _, _, _)
CompositeLoop(keys, data, i, condition) ==
    IF i > Len(keys) THEN Return(Map(condition))
    ELSE LET key == keys[i].v
             value == CompositeRead(data, key, i - 1)
         IN  IF ~Truthy(value)
             THEN Throw(DbError("invalid_call",
                     Str(<<"missing \"">> \o key \o <<"\" for composite primary key">>)))
             ELSE CompositeLoop(keys, data, i + 1, Append(condition, <<key, value>>))

buildPkConditionOf(p, data) ==
    IF isArray(p)
    THEN IF isObject(data)
         THEN CompositeLoop(p.v, data, 1, <<>>)
         ELSE \* line 138: _.isArray() without an argument is false
              Throw(DbError("invalid_call", Str(<<"invalid input for composite primary key">>)))
    ELSE IF isObject(data)
         THEN IF isUndefined(Get(data, PropertyKey(p)))
              THEN Throw(PlainError("missing primary key"))
              ELSE Return(Map(<< <<PropertyKey(p), Get(data, PropertyKey(p))>> >>))
         ELSE Return(Map(<< <<PropertyKey(p), data>> >>))

buildPkCondition(data) == buildPkConditionOf(pk, data)

(***************************************************************************)
(* compileOptions (base.js 222-246)                                        *)
(***************************************************************************)
compileOptions(options) ==
    IF isString(options) THEN options.v
    ELSE IF isObject(options)
    THEN LET orderBy == Get(options, <<"orderBy">>)
             lim == Get(options, <<"limit">>)
             start == Get(options, <<"start">>)
             limit == IF isArray(lim) THEN lim.v
                      ELSE (IF Truthy(start) THEN <<start>> ELSE <<>>)
                           \o (IF Truthy(lim) THEN <<lim>> ELSE <<>>)
         IN  (IF Truthy(orderBy) THEN <<" ORDER BY ">> \o ToStr(orderBy) ELSE <<>>)
             \o (IF Truthy(lim)
                 THEN <<" LIMIT ">>
                      \o Join([i \in 1..Len(limit) |-> ToStr(limit[i])], <<", ">>)
                 ELSE <<>>)
    ELSE <<>>

(***************************************************************************)
(* Objects: property write, _.extend, _.pick                               *)
(***************************************************************************)
\* obj[key] = value on a mapping: in place when the key exists, appended if not
SetProp(obj, key, value) ==
    IF obj.t # "map" THEN obj
    ELSE IF \E i \in 1..Len(obj.v) : obj.v[i][1] = key
    THEN Map([i \in 1..Len(obj.v) |->
                IF obj.v[i][1] = key THEN <<key, value>> ELSE obj.v[i]])
    ELSE Map(Append(obj.v, <<key, value>>))

\* _.extend(obj, source): every own property of source written into obj;
\* obj that is undefined is returned as it is (underscore's createAssigner)
RECURSIVE ExtendFrom(_, _, _)
ExtendFrom(obj, source, i) ==
    IF i > Len(Keys(source)) THEN obj
    ELSE ExtendFrom(SetProp(obj, source.v[i][1], source.v[i][2]), source, i + 1)

extend(obj, source) == IF obj.t = "map" THEN ExtendFrom(obj, source, 1) ELSE obj

\* _.pick(data, keys): the properties of data named in keys, in keys' order
RECURSIVE PickFrom(_, _, _)
PickFrom(data, keys, i) ==
    IF i > Len(keys) THEN <<>>
    ELSE (IF \E j \in 1..Len(Keys(data)) : Keys(data)[j] = keys[i]
          THEN << <<keys[i], Get(data, keys[i])>> >> ELSE <<>>)
         \o PickFrom(data, keys, i + 1)

pick(data, keys) == Map(PickFrom(data, keys, 1))

(***************************************************************************)
(* The validation collaborator validate.js, as base.js 321 and 342 call    *)
(* it: the rules presence and numericality decide, any other rule passes   *)
(***************************************************************************)
RuleViolated(value, rules) ==
    \/ /\ Truthy(Get(rules, <<"presence">>))
       /\ value.t \in {"undef", "null"} \/ value = Str(<<>>)
    \/ /\ Truthy(Get(rules, <<"numericality">>))
       /\ value.t \notin {"undef", "null", "num"}

RECURSIVE ViolationsFrom(_, _, _)
ViolationsFrom(data, cons, i) ==
    IF i > Len(Keys(cons)) THEN <<>>
    ELSE (IF RuleViolated(Get(data, cons.v[i][1]), cons.v[i][2])
          THEN << <<cons.v[i][1], Arr(<<Str(<<"is invalid">>)>>)>> >> ELSE <<>>)
         \o ViolationsFrom(data, cons, i + 1)

\* validate(data, constraints): undefined when nothing is violated
ViolationsValue(violations) == IF violations = <<>> THEN Undef ELSE Map(violations)

validateJs(data, cons) == ViolationsValue(ViolationsFrom(data, cons, 1))

(***************************************************************************)
(* BaseModel.prototype.validate (base.js 311-322).  _.clone is shallow:    *)
(* the clone's rule specifications are the handle's own objects, so        *)
(* _.extend(constraints[key], value) writes into this.constraints[key].    *)
(* Returns the violations and the handle's constraints after the call.     *)
(***************************************************************************)
\* line 318 for the i-th supplied field and those after it
RECURSIVE MergeInto(_, _, _)
MergeInto(own, supplied, i) ==
    IF i > Len(Keys(supplied)) THEN own
    ELSE MergeInto(IF Get(own, supplied.v[i][1]).t = "map"
                   THEN SetProp(own, supplied.v[i][1],
                                extend(Get(own, supplied.v[i][1]), supplied.v[i][2]))
                   ELSE own,
                   supplied, i + 1)

Validated(data, cons) == [errors |-> validateJs(data, cons), cons |-> cons]

validate(data, supplied, own) ==
    IF supplied = Bool(TRUE) THEN Validated(data, own)
    ELSE Validated(data, MergeInto(own, supplied, 1))

(***************************************************************************)
(* The operations.  Invoking self[name](args) either throws, returns a     *)
(* value, or returns a promise that waits for one driver primitive:        *)
(*   [kind |-> "throw", error, cons, log]                                  *)
(*   [kind |-> "value", value, cons, log]                                  *)
(*   [kind |-> "query", name, args, frames, cons, log]                     *)
(* name and args are the primitive and the arguments the promise layer     *)
(* will hand to it; frames are the .then handlers chained on its promise,  *)
(* innermost first; cons is this.constraints after the synchronous part;   *)
(* log lists what happened, in order.                                      *)
(***************************************************************************)
\* line 34: the methods bindCallback wraps on the instance
WrappedMethods == {"search", "find", "findByPk", "insert", "update", "replace", "delete"}

\* line 36: the driver primitives bindPromise wraps on the instance
PromisedMethods ==
    {"query", "beginTransaction", "commit", "rollback", "changeUser", "ping", "statistics"}

Arg(args, i) == IF i <= Len(args) THEN args[i] ELSE Undef

Front(args) == SubSeq(args, 1, Len(args) - 1)

AddFrame(r, frame) == IF r.kind = "query" THEN [r EXCEPT !.frames = Append(@, frame)] ELSE r

AddLog(r, events) == [r EXCEPT !.log = events \o @]

Thrown(error, cons) == [kind |-> "throw", error |-> error, cons |-> cons, log |-> <<>>]

\* mysql.format("... ??", [this.table])
FormatTable(head) == <<head>> \o escapeId(table)

\* line 113 for a wrapped method, when the last argument is a function:
\* the arguments the old method gets
BridgeArgs(args) ==
    IF args # <<>> /\ args[Len(args)].t = "fn" THEN Front(args) ELSE args

\* lines 114-121: the handlers the bridge chains on the promise it got
BridgeFrames(args) ==
    IF args # <<>> /\ args[Len(args)].t = "fn"
    THEN << [f |-> "cb", fn |-> args[Len(args)]] >> ELSE <<>>

\* lines 78-93: the promise layer's wrapper of driver primitive name; the
\* primitive itself is invoked later, from a scheduled callback
Promised(name, args, cons) ==
    [kind |-> "query", name |-> name, args |-> args, frames |-> <<>>, cons |-> cons,
     log |-> << [e |-> "invoke", name |-> name, args |-> args] >>]

\* lines 108-123: the callback layer's wrapper; r is what the old method
\* gave for BridgeArgs(args)
Bridged(name, args, r) ==
    AddLog(IF r.kind = "query" THEN [r EXCEPT !.frames = @ \o BridgeFrames(args)] ELSE r,
           << [e |-> "invoke", name |-> name, args |-> args] >>)

\* a prototype method called without a wrapper around it
Plain(name, args, r) == AddLog(r, << [e |-> "invoke", name |-> name, args |-> args] >>)

\* lines 248-256
\* this.query(head + where + tail), unless compileConditions threw
QueryWhere(head, where, tail, cons) ==
    IF where.kind = "throw" THEN Thrown(where.error, cons)
    ELSE Promised("query", <<Str(head \o where.value \o tail)>>, cons)

search(conditions, options, cons) ==
    QueryWhere(FormatTable("SELECT * FROM "), compileConditions(conditions),
               compileOptions(options), cons)

\* self.search(...): the instance's wrapped search
selfSearch(args, cons) ==
    Bridged("search", args,
            search(Arg(BridgeArgs(args), 1), Arg(BridgeArgs(args), 2), cons))

\* lines 258-265
find(conditions, options, cons) ==
    LET opts == IF Truthy(options) THEN options ELSE Map(<<>>)
    IN  AddFrame(selfSearch(<<conditions, SetProp(opts, <<"limit">>, Num(1))>>, cons),
                 [f |-> "findThen"])

selfFind(args, cons) ==
    Bridged("find", args, find(Arg(BridgeArgs(args), 1), Arg(BridgeArgs(args), 2), cons))

\* lines 267-269
findByPk(conditions, options, cons) == selfFind(<<conditions, options>>, cons)

\* lines 271-280
findOne(field, conditions, options, cons) ==
    AddFrame(selfFind(<<conditions, options>>, cons), [f |-> "findOneThen", field |-> field])

\* lines 300-302
findAll(options, cons) == selfSearch(<<Map(<<>>), options>>, cons)

\* lines 304-309
remove(conditions, cons) ==
    QueryWhere(FormatTable("DELETE FROM "), compileConditions(conditions), <<>>, cons)

\* lines 324-338
\* lines 325-330: the validation gate; v.errors is undefined when it passes
\* or is skipped
Gate(data, supplied, cons) ==
    IF Truthy(supplied) THEN validate(data, supplied, cons)
    ELSE [errors |-> Undef, cons |-> cons]

GateLog(data, supplied, errors) ==
    IF Truthy(supplied)
    THEN << [e |-> "validate", data |-> data, errors |-> errors] >> ELSE <<>>

\* insert without the test of line 327: the statement is built whatever the
\* gate gave
InsertUnchecked(data, v) ==
    Promised("query",
             <<Str(FormatTable("INSERT INTO ") \o <<" SET ">>
                   \o escape(pick(data, Keys(v.cons))))>>, v.cons)

\* lines 327-337, v what the gate gave
InsertAfter(data, v) ==
    IF Truthy(v.errors) THEN Thrown(DbError("validition", v.errors), v.cons)
    ELSE Promised("query",
                  <<Str(FormatTable("INSERT INTO ") \o <<" SET ">>
                        \o escape(pick(data, Keys(v.cons))))>>, v.cons)

insert(data, supplied, cons) ==
    AddLog(InsertAfter(data, Gate(data, supplied, cons)),
           GateLog(data, supplied, Gate(data, supplied, cons).errors))

selfInsert(args, cons) ==
    Bridged("insert", args, insert(Arg(BridgeArgs(args), 1), Arg(BridgeArgs(args), 2), cons))

\* lines 340-353
\* lines 343-352, errors what validate.js gave for the conditions
UpdateAfter(conditions, data, errors, cons) ==
    IF Truthy(errors) THEN Thrown(DbError("validition", errors), cons)
    ELSE QueryWhere(FormatTable("UPDATE ") \o <<" SET ">> \o escape(pick(data, Keys(cons))),
                    compileConditions(conditions), <<>>, cons)

UpdateGate(conditions, supplied) ==
    IF Truthy(supplied) THEN validateJs(conditions, supplied) ELSE Undef

update(conditions, data, supplied, cons) ==
    AddLog(UpdateAfter(conditions, data, UpdateGate(conditions, supplied), cons),
           GateLog(conditions, supplied, UpdateGate(conditions, supplied)))

selfUpdate(args, cons) ==
    Bridged("update", args,
            update(Arg(BridgeArgs(args), 1), Arg(BridgeArgs(args), 2),
                   Arg(BridgeArgs(args), 3), cons))

\* lines 355-360 and the .then of 361: the lookup replace starts with
ReplaceLookup(condition, data, supplied, cons) ==
    IF condition.kind = "throw" THEN Thrown(condition.error, cons)
    ELSE AddFrame(selfFind(<<condition.value>>, cons),
                  [f |-> "replaceThen", condition |-> condition.value,
                   data |-> data, constraints |-> supplied])

replace(data, supplied, cons) ==
    ReplaceLookup(buildPkCondition(data), data, supplied, cons)

\* validate called as an operation of the handle
ValidateValue(data, v) ==
    [kind |-> "value", value |-> v.errors, cons |-> v.cons,
     log |-> << [e |-> "validate", data |-> data, errors |-> v.errors] >>]

validateCall(data, supplied, cons) == ValidateValue(data, validate(data, supplied, cons))

\* self[name](args) as a caller reaches it: the callback layer around the
\* methods of line 34, the promise layer for the primitives of line 36, the
\* prototype's method for the rest
Invoke(name, args, cons) ==
    LET a == BridgeArgs(args)
    IN  CASE name = "search" -> selfSearch(args, cons)
          [] name = "find" -> selfFind(args, cons)
          [] name = "findByPk" ->
                Bridged(name, args, findByPk(Arg(a, 1), Arg(a, 2), cons))
          [] name = "insert" -> selfInsert(args, cons)
          [] name = "update" -> selfUpdate(args, cons)
          [] name = "replace" -> Bridged(name, args, replace(Arg(a, 1), Arg(a, 2), cons))
          [] name = "delete" -> Bridged(name, args, remove(Arg(a, 1), cons))
          [] name = "remove" -> Plain(name, args, remove(Arg(args, 1), cons))
          [] name = "findOne" ->
                Plain(name, args, findOne(Arg(args, 1), Arg(args, 2), Arg(args, 3), cons))
          [] name = "findAll" -> Plain(name, args, findAll(Arg(args, 1), cons))
          [] name = "validate" ->
                Plain(name, args, validateCall(Arg(args, 1), Arg(args, 2), cons))
          [] name \in PromisedMethods -> Promised(name, args, cons)

(***************************************************************************)
(* Promises.  An outcome is [state |-> "resolved" | "rejected", value].    *)
(***************************************************************************)
Pending == [state |-> "pending", value |-> Undef]
NoPromise == [state |-> "none", value |-> Undef]
Resolved(value) == [state |-> "resolved", value |-> value]
Rejected(error) == [state |-> "rejected", value |-> error]

\* a deferred that takes every outcome it is given, settled or not
SettleAlways(promise, outcome) == outcome

\* deferred.resolve / deferred.reject, and a promise following another:
\* only a pending promise takes an outcome
SettleOnce(promise, outcome) == IF promise.state = "pending" THEN outcome ELSE promise

\* lines 81-87: the completion callback the promise layer builds
CallbackOutcome(err, rows) == IF Truthy(err) THEN Rejected(err) ELSE Resolved(rows)

\* line 88: the arguments the driver primitive gets
PromiseArgs(args) == Append(args, Fn(<<"callback">>))

\* the primitive applied twice at line 90
DriverInvokedTwice(name, full) ==
    << [e |-> "driver", name |-> name, args |-> full],
       [e |-> "driver", name |-> name, args |-> full] >>

\* line 90: the driver primitive is invoked
DriverInvocations(name, full) == << [e |-> "driver", name |-> name, args |-> full] >>

TypeError(what) ==
    [t |-> "error", name |-> "TypeError", message |-> what, description |-> Undef]

\* lines 262-264
FindThen(rows) ==
    CASE rows.t = "arr" -> Resolved(IF Len(rows.v) = 0 THEN Null ELSE rows.v[1])
      [] rows.t \in {"undef", "null"} -> Rejected(TypeError("cannot read length"))
      [] OTHER -> Resolved(Undef)

\* lines 273-279
FindOneThen(row, field) ==
    CASE row.t = "null" -> Resolved(Undef)
      [] row.t = "undef" -> Rejected(TypeError("cannot read field"))
      [] OTHER -> Resolved(Get(row, ToStr(field)))

\* the branches of lines 362-366 exchanged
ReplaceThenSwapped(row, f, cons) ==
    IF Truthy(row)
    THEN selfInsert(<<f.data, f.constraints>>, cons)
    ELSE selfUpdate(<<f.condition, f.data, f.constraints>>, cons)

\* lines 361-367: the write replace chooses once the lookup has answered
ReplaceThen(row, f, cons) ==
    IF Truthy(row)
    THEN selfUpdate(<<f.condition, f.data, f.constraints>>, cons)
    ELSE selfInsert(<<f.data, f.constraints>>, cons)

\* lines 115-120: the bridge's handlers call the handler it was given
BridgeHandler(fn, outcome) ==
    IF outcome.state = "resolved"
    THEN << [e |-> "handler", by |-> "bridge", fn |-> fn, err |-> Null,
             data |-> outcome.value] >>
    ELSE << [e |-> "handler", by |-> "bridge", fn |-> fn, err |-> outcome.value,
             data |-> Undef] >>

\* The .then handlers of a call run on an outcome, innermost first, until
\* none is left (the call's promise takes the outcome) or one of them
\* returns the promise of a further driver request.
RECURSIVE RunFrames(_, _, _, _)
RECURSIVE AfterReplaceThen(_, _, _)
\* r is what the update or insert replace chose gave synchronously
AfterReplaceThen(r, rest, log) ==
    IF r.kind = "throw"
    THEN RunFrames(Rejected(r.error), rest, r.cons, log \o r.log)
    ELSE [kind |-> "query", name |-> r.name, args |-> r.args,
          frames |-> r.frames \o rest, cons |-> r.cons, log |-> log \o r.log]

RunFrames(outcome, frames, cons, log) ==
    IF frames = <<>>
    THEN [kind |-> "settle", outcome |-> outcome, cons |-> cons, log |-> log]
    ELSE LET f == Head(frames)
             rest == Tail(frames)
         IN  CASE f.f = "cb" ->
                    RunFrames(outcome, rest, cons, log \o BridgeHandler(f.fn, outcome))
               [] f.f = "findThen" ->
                    RunFrames(IF outcome.state = "resolved" THEN FindThen(outcome.value)
                              ELSE outcome, rest, cons, log)
               [] f.f = "findOneThen" ->
                    RunFrames(IF outcome.state = "resolved"
                              THEN FindOneThen(outcome.value, f.field)
                              ELSE outcome, rest, cons, log)
               [] f.f = "replaceThen" ->
                    IF outcome.state = "rejected" THEN RunFrames(outcome, rest, cons, log)
                    ELSE AfterReplaceThen(ReplaceThen(outcome.value, f, cons), rest, log)

(***************************************************************************)
(* The driver and the table behind it (the mysql connection this.db):      *)
(* requests are executed one at a time, in the order they were accepted    *)
(***************************************************************************)
\* the primary keys rows may have: 7 is in the table from the start, 99 is not
PkValues == {7, 99}

isFunction(x) == x.t = "fn"

\* the argument the driver takes for its completion callback: query(sql,
\* values, cb) takes values when it is a function; the other primitives
\* (options, cb) take cb when given, options otherwise
CompletionTarget(name, full) ==
    IF name = "query"
    THEN IF isFunction(Arg(full, 2)) THEN Arg(full, 2)
         ELSE IF isFunction(Arg(full, 3)) THEN Arg(full, 3) ELSE Undef
    ELSE IF isFunction(Arg(full, 2)) THEN Arg(full, 2)
         ELSE IF isFunction(Arg(full, 1)) THEN Arg(full, 1) ELSE Undef

HasAt(sql, i, pat) ==
    /\ i + Len(pat) - 1 <= Len(sql)
    /\ SubSeq(sql, i, i + Len(pat) - 1) = pat

Contains(sql, pat) == \E i \in 1..Len(sql) : HasAt(sql, i, pat)

\* the rows a statement's WHERE clause selects: all without one, the row of
\* the key in a primary-key equality, none otherwise
Selected(sql, rows) ==
    IF ~Contains(sql, <<" WHERE ">>) THEN rows
    ELSE {k \in rows :
            \/ Contains(sql, <<" WHERE ", "(", "BACKTICK", "id", "BACKTICK", " ", "=", " ",
                               ToString(k), ")">>)
            \/ Contains(sql, <<" WHERE ", "(", "BACKTICK", "id", "BACKTICK", " ", "=", " ",
                               "'", ToString(k), "'", ")">>)}

Row(k) == Map(<< <<<<"id">>, Num(k)>>, <<<<"name">>, Str(<<"row">>)>> >>)

Min(S) == CHOOSE k \in S : \A j \in S : k <= j

RECURSIVE SortedRows(_)
SortedRows(S) == IF S = {} THEN <<>> ELSE <<Row(Min(S))>> \o SortedRows(S \ {Min(S)})

DriverError(code) ==
    [t |-> "error", name |-> "DriverError", message |-> code, description |-> Undef]

OkPacket(n) == Map(<< <<<<"affectedRows">>, Num(n)>> >>)

Answer(err, rows, rowsAfter) == [err |-> err, rows |-> rows, db |-> rowsAfter]

\* the rows a SELECT returns: the first only under LIMIT 1
Limited(sql, hit) ==
    IF hit # {} /\ Contains(sql, <<" LIMIT ", "1">>) THEN {Min(hit)} ELSE hit

\* the keys an INSERT's SET clause gives the new row
InsertedKeys(sql) ==
    {k \in PkValues : Contains(sql, <<"BACKTICK", "id", "BACKTICK", " = ", ToString(k)>>)}

ExecuteInsert(newKeys, rows) ==
    IF newKeys = {} THEN Answer(DriverError("ER_NO_DEFAULT_FOR_FIELD"), Undef, rows)
    ELSE IF newKeys \subseteq rows THEN Answer(DriverError("ER_DUP_ENTRY"), Undef, rows)
    ELSE Answer(Null, OkPacket(1), rows \cup newKeys)

ExecuteSql(sql, hit, rows) ==
    CASE Head(sql) = "SELECT * FROM " ->
            Answer(Null, Arr(SortedRows(Limited(sql, hit))), rows)
      [] Head(sql) = "DELETE FROM " -> Answer(Null, OkPacket(Cardinality(hit)), rows \ hit)
      [] Head(sql) = "UPDATE " -> Answer(Null, OkPacket(Cardinality(hit)), rows)
      [] Head(sql) = "INSERT INTO " -> ExecuteInsert(InsertedKeys(sql), rows)
      [] OTHER -> Answer(DriverError("ER_PARSE_ERROR"), Undef, rows)

\* one request executed against the rows
Execute(name, full, rows) ==
    IF name # "query" THEN Answer(Null, Undef, rows)
    ELSE IF ~isString(Arg(full, 1)) \/ Arg(full, 1) = Str(<<>>)
    THEN Answer(DriverError("ER_PARSE_ERROR"), Undef, rows)
    ELSE ExecuteSql(full[1].v, Selected(full[1].v, rows), rows)

(***************************************************************************)
(* The handle and its calls                                                *)
(***************************************************************************)
\* the most calls made on the handle in one behaviour
MaxCalls == 2

\* new BaseModel(connection, {table: 'user', pk: 'id', constraints: ...})
\* (lines 24-38)
Table0 == <<"user">>
Pk0 == Str(<<"id">>)
Constraints0 ==
    Map(<< <<<<"id">>, Map(<< <<<<"numericality">>, Bool(TRUE)>> >>)>>,
           <<<<"name">>, Map(<< <<<<"length">>, Num(5)>> >>)>> >>)

NoRequest == [name |-> "none", args |-> <<>>]

\* the record of a call whose synchronous part gave r; during: the earlier
\* calls whose promises are still pending when this one is made
NewCall(op, args, r) ==
    [op |-> op, args |-> args, sync |-> r.kind,
     thrown |-> IF r.kind = "throw" THEN r.error ELSE Undef,
     result |-> IF r.kind = "query" THEN Pending ELSE NoPromise,
     deferred |-> IF r.kind = "query" THEN Pending ELSE NoPromise,
     gen |-> IF r.kind = "query" THEN 1 ELSE 0,
     request |-> IF r.kind = "query" THEN [name |-> r.name, args |-> r.args] ELSE NoRequest,
     frames |-> IF r.kind = "query" THEN r.frames ELSE <<>>,
     during |-> {i \in 1..Len(calls) : calls[i].result.state = "pending"},
     log |-> r.log]

\* A caller invokes self[op](args): the synchronous part runs to its end
\* and gives r.
Called(op, args, r) ==
    /\ calls' = Append(calls, NewCall(op, args, r))
    /\ constraints' = r.cons
    /\ tasks' = IF r.kind = "query" THEN Append(tasks, Len(calls) + 1) ELSE tasks

CallWith(op, args) ==
    /\ Len(calls) < MaxCalls
    /\ Called(op, args, Invoke(op, args, constraints))
    /\ UNCHANGED <<table, pk, fnCall, driverQ, db>>

\* The call's pending promise has taken an outcome and its .then handlers
\* gave r: the call's own promise settles, or a further request is scheduled.
\* Gives the call's record, this.constraints and whether a request was scheduled.
Advanced(call, r) ==
    IF r.kind = "settle"
    THEN [call |-> [call EXCEPT
              !.result = SettleOnce(@, r.outcome),
              !.frames = <<>>,
              !.request = NoRequest,
              !.log = r.log \o (IF SettleOnce(call.result, r.outcome) # call.result
                                THEN << [e |-> "settle", outcome |-> r.outcome] >>
                                ELSE <<>>)],
          cons |-> r.cons, spawn |-> FALSE]
    ELSE [call |-> [call EXCEPT
              !.frames = r.frames,
              !.request = [name |-> r.name, args |-> r.args],
              !.deferred = Pending,
              !.gen = @ + 1,
              !.log = r.log],
          cons |-> r.cons, spawn |-> TRUE]

Advance(call, cons, outcome, log) == Advanced(call, RunFrames(outcome, call.frames, cons, log))

\* the driver takes the request of call c
Accepted(c, call, full, log) ==
    /\ calls' = [calls EXCEPT ![c].log = log]
    /\ driverQ' = Append(driverQ,
           [call |-> c, gen |-> call.gen, name |-> call.request.name, args |-> full,
            target |-> CompletionTarget(call.request.name, full)])
    /\ tasks' = Tail(tasks)
    /\ UNCHANGED constraints

\* the driver primitive throws: the promise of line 89 is rejected
Refused(c, a) ==
    /\ calls' = [calls EXCEPT ![c] = a.call]
    /\ constraints' = a.cons
    /\ tasks' = IF a.spawn THEN Append(Tail(tasks), c) ELSE Tail(tasks)
    /\ UNCHANGED driverQ

DispatchOf(c, call, full, log) ==
    \/ Accepted(c, call, full, log)
    \/ Refused(c, Advance(call, constraints, Rejected(DriverError("THROWN")),
                          Append(log, [e |-> "driverThrow"])))

DispatchArgs(c, call, full) ==
    DispatchOf(c, call, full, call.log \o DriverInvocations(call.request.name, full))

\* lines 89-92: the scheduled callback of the promise layer runs and invokes
\* the driver primitive, which takes the request or throws
Dispatch ==
    /\ tasks # <<>>
    /\ DispatchArgs(Head(tasks), calls[Head(tasks)],
                    PromiseArgs(calls[Head(tasks)].request.args))
    /\ UNCHANGED <<table, pk, fnCall, db>>

Merge(st, a) == [call |-> a.call, cons |-> a.cons, spawn |-> st.spawn \/ a.spawn]

\* lines 81-87 run with (err, rows): settled is the request's deferred after
\* it, called the call's log with the invocation recorded
Settling(st, q, settled, called) ==
    IF q.gen # st.call.gen \/ settled = st.call.deferred
    THEN [st EXCEPT !.call.log = called]
    ELSE Merge(st, Advance([st.call EXCEPT !.deferred = settled], st.cons, settled, called))

\* The driver invokes the function it took for its completion callback with
\* (err, rows): the promise layer's callback settles the request's deferred,
\* a caller's function is simply called.
OnCallback(st, q, err, rows) ==
    IF q.target = Undef THEN st
    ELSE IF q.target # Fn(<<"callback">>)
    THEN [st EXCEPT !.call.log = Append(@,
             [e |-> "handler", by |-> "driver", fn |-> q.target, err |-> err,
              data |-> rows])]
    ELSE Settling(st, q, SettleOnce(st.call.deferred, CallbackOutcome(err, rows)),
                  Append(st.call.log, [e |-> "callback", err |-> err, rows |-> rows]))

\* how often the driver may invoke the completion callback of one request
CallbackTimes == {1, 2}

\* what a repeated invocation reports: the opposite of the first
Again(answer) ==
    IF Truthy(answer.err) THEN [answer EXCEPT !.err = Null, !.rows = Undef]
    ELSE [answer EXCEPT !.err = DriverError("AGAIN"), !.rows = Undef]

Callbacks(st, q, answer, times) ==
    CASE times = 0 -> st
      [] times = 1 -> OnCallback(st, q, answer.err, answer.rows)
      [] OTHER -> OnCallback(OnCallback(st, q, answer.err, answer.rows), q,
                             Again(answer).err, Again(answer).rows)

Completed(c, st, rows) ==
    /\ calls' = [calls EXCEPT ![c] = st.call]
    /\ constraints' = st.cons
    /\ tasks' = IF st.spawn THEN Append(tasks, c) ELSE tasks
    /\ db' = rows

CompleteWith(q, answer, times) ==
    Completed(q.call,
              Callbacks([call |-> calls[q.call], cons |-> constraints, spawn |-> FALSE],
                        q, answer, times),
              answer.db)

\* The driver completes the oldest request it holds: it executes it, or
\* fails, and invokes the completion callback; scheduled callbacks run first.
\* A driver that never answers a request is the behaviour that stops here.
DriverComplete ==
    /\ driverQ # <<>>
    /\ tasks = <<>>
    /\ \E times \in CallbackTimes :
          \/ CompleteWith(Head(driverQ),
                          Execute(Head(driverQ).name, Head(driverQ).args, db), times)
          \/ CompleteWith(Head(driverQ),
                          Answer(DriverError("PROTOCOL_CONNECTION_LOST"), Undef, db), times)
    /\ driverQ' = Tail(driverQ)
    /\ UNCHANGED <<table, pk, fnCall>>

InitHandle ==
    /\ table = Table0
    /\ pk = Pk0
    /\ constraints = Constraints0
    /\ fnCall = [fn |-> "none"]
    /\ calls = <<>>
    /\ tasks = <<>>
    /\ driverQ = <<>>
    /\ db = {7}

(***************************************************************************)
(* The arguments callers pass                                              *)
(***************************************************************************)
CB == Fn(<<"cb">>)

Record(id, name) == Map(<< <<<<"id">>, id>>, <<<<"name">>, name>> >>)

\* a record with a field outside the constraint mapping
D7 == Map(<< <<<<"id">>, Num(7)>>, <<<<"name">>, Str(<<"bob">>)>>,
             <<<<"role">>, Str(<<"admin">>)>> >>)
D99 == Record(Num(99), Str(<<"amy">>))
DEmptyName == Record(Num(99), Str(<<>>))
DNoPk == Map(<< <<<<"name">>, Str(<<"bob">>)>> >>)

\* a constraints argument overriding the rules of the configured field name
Override == Map(<< <<<<"name">>, Map(<< <<<<"presence">>, Bool(TRUE)>> >>)>> >>)

RawCondition == Str(<<"id", " ", "=", " ", "7">>)
ShortTuple == Arr(<< Arr(<<Str(<<"name">>), Arr(<<Str(<<"like">>)>>)>>) >>)
FieldName == Str(<<"name">>)
SelectAll == Str(<<"SELECT * FROM ", "BACKTICK", "user", "BACKTICK">>)

Values == Arr(<<Str(<<"user">>)>>)

CallFrom(inputs) == \E in \in inputs : CallWith(in[1], in[2])

\* the facade, each operation once
FacadeInputs ==
    {<<"search", <<Num(7)>>>>,
     <<"find", <<Num(99)>>>>,
     <<"findByPk", <<Num(7)>>>>,
     <<"findOne", <<FieldName, Num(7)>>>>,
     <<"findAll", <<>>>>,
     <<"insert", <<D99>>>>,
     <<"update", <<Num(7), D7>>>>,
     <<"replace", <<D99>>>>,
     <<"remove", <<Num(7)>>>>, <<"delete", <<>>>>}

\* the operations behind the validation gate, with and without constraints
GateInputs ==
    {<<"insert", <<D99>>>>, <<"insert", <<D99, Override>>>>,
     <<"insert", <<DEmptyName, Override>>>>, <<"insert", <<D7, Bool(TRUE)>>>>,
     <<"update", <<Num(7), D7>>>>, <<"update", <<Num(7), D7, Override>>>>,
     <<"update", <<Record(Num(7), Str(<<"bob">>)), D7, Override>>>>,
     <<"replace", <<D7, Override>>>>, <<"replace", <<DEmptyName, Override>>>>,
     <<"validate", <<DEmptyName, Override>>>>}

\* the wrapped operations called with a completion handler
BridgeInputs ==
    {<<"search", <<Num(7), CB>>>>, <<"search", <<RawCondition, CB>>>>,
     <<"find", <<Num(99), CB>>>>, <<"findByPk", <<Num(7), CB>>>>,
     <<"insert", <<D99, CB>>>>, <<"insert", <<DEmptyName, Override, CB>>>>,
     <<"update", <<Num(7), D7, CB>>>>, <<"update", <<ShortTuple, D7, CB>>>>,
     <<"replace", <<D7, CB>>>>, <<"replace", <<DNoPk, CB>>>>,
     <<"replace", <<DEmptyName, Override, CB>>>>,
     <<"delete", <<Num(7), CB>>>>}

\* query, findOne, findAll and remove called with a completion handler
SurfaceInputs ==
    {<<"query", <<SelectAll, CB>>>>, <<"query", <<SelectAll, Values, CB>>>>,
     <<"findOne", <<FieldName, Num(7), CB>>>>,
     <<"findOne", <<FieldName, Num(7), Undef, CB>>>>,
     <<"findAll", <<CB>>>>, <<"findAll", <<Undef, CB>>>>,
     <<"remove", <<Num(7), CB>>>>, <<"remove", <<CB>>>>}

\* the promise layer's wrappers
PromiseInputs ==
    {<<"query", <<SelectAll>>>>, <<"query", <<SelectAll, Values>>>>,
     <<"query", <<Str(<<"DROP">>)>>>>,
     <<"beginTransaction", <<>>>>, <<"commit", <<>>>>, <<"rollback", <<>>>>,
     <<"changeUser", <<Map(<< <<<<"user">>, Str(<<"root">>)>> >>)>>>>,
     <<"ping", <<>>>>, <<"statistics", <<>>>>}

\* replace
ReplaceInputs ==
    {<<"replace", <<D7>>>>, <<"replace", <<D99>>>>,
     <<"replace", <<DNoPk>>>>, <<"replace", <<D7, Override>>>>}

Init == InitHandle

Call == CallFrom(FacadeInputs)
Next == Call \/ Dispatch \/ DriverComplete
Spec == Init /\ [][Next]_vars

CallGate == CallFrom(GateInputs)
NextGate == CallGate \/ Dispatch \/ DriverComplete
SpecGate == Init /\ [][NextGate]_vars

CallBridge == CallFrom(BridgeInputs)
NextBridge == CallBridge \/ Dispatch \/ DriverComplete
SpecBridge == Init /\ [][NextBridge]_vars

CallSurface == CallFrom(SurfaceInputs)
NextSurface == CallSurface \/ Dispatch \/ DriverComplete
SpecSurface == Init /\ [][NextSurface]_vars

CallPromise == CallFrom(PromiseInputs)
NextPromise == CallPromise \/ Dispatch \/ DriverComplete
SpecPromise == Init /\ [][NextPromise]_vars

CallReplace == CallFrom(ReplaceInputs)
NextReplace == CallReplace \/ Dispatch \/ DriverComplete
SpecReplace == Init /\ [][NextReplace]_vars

(***************************************************************************)
(* The pure functions on their own: compileConditions and                  *)
(* buildPkCondition applied to arguments drawn from bounded sets, on a     *)
(* handle with a scalar or a composite primary key                         *)
(***************************************************************************)
\* the longest string, in atoms, and the longest positional record
MaxLen == 2

Alphabet == {"id", " ", "=", "%"}
Strings == UNION {[1..n -> Alphabet] : n \in 0..MaxLen}

PkComposite == Arr(<<Str(<<"tenant">>), Str(<<"id">>)>>)

\* the values a field of a record may hold
FieldValues == {Num(0), Num(7), Str(<<>>), Str(<<"a">>)}

\* a mapping with the fields tenant and id, each absent or holding a value
RecordOf(tenant, id) ==
    Map((IF tenant = Undef THEN <<>> ELSE << <<<<"tenant">>, tenant>> >>)
        \o (IF id = Undef THEN <<>> ELSE << <<<<"id">>, id>> >>))

RecordInputs ==
    {RecordOf(a, b) : a \in FieldValues \cup {Undef}, b \in FieldValues \cup {Undef}}
    \cup {Arr(v) : v \in UNION {[1..n -> FieldValues] : n \in 0..MaxLen}}
    \cup {Num(7), Str(<<"a">>), Undef, Null}

LikeSuper == Arr(<<Str(<<"username">>), Arr(<<Str(<<"like">>), Str(<<"super", "%">>)>>)>>)
LikeSpider ==
    Arr(<<Str(<<"username">>), Arr(<<Str(<<"like">>), Str(<<"spider">>), Str(<<"or">>)>>)>>)

ConditionInputs ==
    {Str(v) : v \in Strings}
    \cup {Num(7), Num(0), Undef, Null, Map(<<>>), Arr(<<>>), ShortTuple,
          Arr(<<LikeSuper, LikeSpider>>), Arr(<<LikeSpider>>),
          Record(Num(7), Str(<<"bob">>)), Map(<< <<<<"id">>, Num(7)>> >>)}

InitPure ==
    /\ table = Table0
    /\ pk \in {Pk0, PkComposite}
    /\ constraints = Constraints0
    /\ fnCall = [fn |-> "none"]
    /\ calls = <<>>
    /\ tasks = <<>>
    /\ driverQ = <<>>
    /\ db = {7}

ApplyCompileConditions ==
    /\ \E c \in ConditionInputs :
          fnCall' = [fn |-> "compileConditions", arg |-> c, res |-> compileConditions(c)]
    /\ UNCHANGED <<table, pk, constraints, calls, tasks, driverQ, db>>

ApplyBuildPkCondition ==
    /\ \E d \in RecordInputs :
          fnCall' = [fn |-> "buildPkCondition", arg |-> d, res |-> buildPkCondition(d)]
    /\ UNCHANGED <<table, pk, constraints, calls, tasks, driverQ, db>>

NextPure == ApplyCompileConditions \/ ApplyBuildPkCondition
SpecPure == InitPure /\ [][NextPure]_vars

(***************************************************************************)
(* Reading a call's log                                                    *)
(***************************************************************************)
Idx(log, e) == {i \in 1..Len(log) : log[i].e = e}
Count(log, e) == Cardinality(Idx(log, e))
Invoked(log, name) == {i \in Idx(log, "invoke") : log[i].name = name}
HasHandler(cr) == cr.args # <<>> /\ cr.args[Len(cr.args)].t = "fn"
Settled(cr) == cr.result.state \in {"resolved", "rejected"}
Scheduled(c) == \E i \in 1..Len(tasks) : tasks[i] = c
Queued(c) == \E i \in 1..Len(driverQ) : driverQ[i].call = c
\* the statements of a call's driver events that begin with one of heads
Statements(log, heads) ==
    {i \in Idx(log, "driver") :
        /\ log[i].name = "query"
        /\ isString(log[i].args[1])
        /\ log[i].args[1].v # <<>>
        /\ Head(log[i].args[1].v) \in heads}
Writes(log) == Statements(log, {"INSERT INTO ", "UPDATE "})
\* the handler was invoked once, with the outcome the call's promise took
HandlerSawResult(cr) ==
    /\ Count(cr.log, "handler") = 1
    /\ Settled(cr)
    /\ \A i \in Idx(cr.log, "handler") :
          IF cr.result.state = "resolved"
          THEN ~Truthy(cr.log[i].err) /\ cr.log[i].data = cr.result.value
          ELSE cr.log[i].err = cr.result.value

(***************************************************************************)
(* The callback bridge                                                     *)
(***************************************************************************)
\* the call is over: it threw synchronously or its promise has settled
Over(cr) == cr.sync = "throw" \/ Settled(cr)

\* C1: a wrapped operation called with a trailing function invokes that
\* function exactly once: (no error, result) when the operation succeeds,
\* (error) and no result when it fails for any cause, a validation failure,
\* a condition or primary-key compilation error or a driver error included;
\* the promise it returns settles exactly once with the same outcome.
C1_HandlerExactlyOnce ==
    \A c \in 1..Len(calls) :
        (calls[c].op \in WrappedMethods /\ HasHandler(calls[c]))
        => /\ Count(calls[c].log, "handler") <= 1
           /\ Count(calls[c].log, "settle") <= 1
           /\ Over(calls[c]) => HandlerSawResult(calls[c])

(***************************************************************************)
(* Statements per call                                                     *)
(***************************************************************************)
\* C2 as stated: every single call of a facade operation passes at most one
\* SQL statement to the driver.
C2_AtMostOneStatement ==
    \A c \in 1..Len(calls) : Count(calls[c].log, "driver") <= 1

\* the write of a replace call comes second, after a lookup's answer
SecondIsWrite(log) ==
    \A i \in Idx(log, "driver"), j \in Idx(log, "driver") :
        i < j => /\ i \in Statements(log, {"SELECT * FROM "})
                 /\ j \in Writes(log)
                 /\ \E k \in Idx(log, "callback") : i < k /\ k < j

\* C2 amended: a call of an operation other than replace passes at most one
\* statement to the driver; a replace call passes at most two, its lookup
\* SELECT and, after the lookup's answer, one INSERT or UPDATE.
C2_StatementsPerCall ==
    \A c \in 1..Len(calls) :
        IF calls[c].op = "replace"
        THEN Count(calls[c].log, "driver") <= 2 /\ SecondIsWrite(calls[c].log)
        ELSE Count(calls[c].log, "driver") <= 1

\* a replace call that passed two statements and resolved
C2_ReplacePassedTwo ==
    \E c \in 1..Len(calls) :
        /\ calls[c].op = "replace"
        /\ Count(calls[c].log, "driver") = 2
        /\ calls[c].result.state = "resolved"

(***************************************************************************)
(* The handle's configuration                                              *)
(***************************************************************************)
\* C3: the table name, the primary key and the default constraints of a
\* handle never change after construction.
C3_HandleNeverChanges ==
    table = Table0 /\ pk = Pk0 /\ constraints = Constraints0

(***************************************************************************)
(* The validation gate                                                     *)
(***************************************************************************)
Gated == {"insert", "update", "replace"}

\* the constraints argument of a gated call
Supplied(cr) == Arg(BridgeArgs(cr.args), IF cr.op = "update" THEN 3 ELSE 2)

\* validation reported a violation list in the call
Violations(cr) ==
    {cr.log[i].errors : i \in {j \in Idx(cr.log, "validate") : Truthy(cr.log[j].errors)}}

\* the call failed with the ValidationFailed error carrying errors
FailedWith(cr, errors) ==
    \/ cr.sync = "throw" /\ cr.thrown = DbError("validition", errors)
    \/ cr.result = Rejected(DbError("validition", errors))

SkippedWithout(cr) == ~Truthy(Supplied(cr)) => Count(cr.log, "validate") = 0

\* C4 as stated: when validation reports a violation in a call of insert,
\* update or replace, the call fails with the ValidationFailed error carrying
\* the violation list and no statement is passed to the driver in that call;
\* without a constraints argument validation is not invoked.
C4_ViolationBlocksEveryStatement ==
    \A c \in 1..Len(calls) :
        calls[c].op \in Gated
        => /\ \A errors \in Violations(calls[c]) :
                 /\ FailedWith(calls[c], errors)
                 /\ Count(calls[c].log, "driver") = 0
           /\ SkippedWithout(calls[c])

\* C4 amended: on a violation the call fails with the ValidationFailed error
\* carrying the violation list and passes no INSERT or UPDATE to the driver;
\* insert and update pass no statement at all, replace has passed only its
\* lookup SELECT; without a constraints argument validation is not invoked.
C4_ViolationBlocksTheWrite ==
    \A c \in 1..Len(calls) :
        calls[c].op \in Gated
        => /\ \A errors \in Violations(calls[c]) :
                 /\ FailedWith(calls[c], errors)
                 /\ Writes(calls[c].log) = {}
                 /\ IF calls[c].op = "replace"
                    THEN Idx(calls[c].log, "driver")
                            = Statements(calls[c].log, {"SELECT * FROM "})
                         /\ Count(calls[c].log, "driver") = 1
                    ELSE Count(calls[c].log, "driver") = 0
           /\ SkippedWithout(calls[c])

\* a replace call and an insert call that validation stopped, and a gated
\* call without constraints that reached the driver
C4_GateStoppedCalls ==
    /\ \E c \in 1..Len(calls) :
          /\ calls[c].op = "replace"
          /\ Violations(calls[c]) # {}
          /\ calls[c].result.state = "rejected"
    /\ \E c \in 1..Len(calls) :
          /\ calls[c].op = "insert"
          /\ Violations(calls[c]) # {}
          /\ calls[c].sync = "throw"

(***************************************************************************)
(* The rest of the exposed surface called with a completion handler        *)
(***************************************************************************)
Unwrapped == {"query", "findOne", "findAll", "remove"}

\* the driver has taken every request of call c and invoked the function it
\* took for the completion callback of each
Answered(c) ==
    /\ ~Scheduled(c)
    /\ ~Queued(c)
    /\ Count(calls[c].log, "driver") >= 1
    /\ Count(calls[c].log, "driverThrow") = 0

\* C5: query, findOne, findAll and remove called with a completion handler
\* as the last argument return a promise that settles, and invoke the handler
\* exactly once with the same outcome, once the driver has invoked the
\* completion callback it was given.
C5_SurfaceHandlerExactlyOnce ==
    \A c \in 1..Len(calls) :
        (calls[c].op \in Unwrapped /\ HasHandler(calls[c]))
        => ((Over(calls[c]) \/ Answered(c)) => HandlerSawResult(calls[c]))

(***************************************************************************)
(* The promise layer                                                       *)
(***************************************************************************)
FirstOf(S) == Min(S)

\* the outcome the completion callback's first invocation reports
FirstReport(log) ==
    CallbackOutcome(log[FirstOf(Idx(log, "callback"))].err,
                    log[FirstOf(Idx(log, "callback"))].rows)

\* C6: a call of a promise-layer wrapper invokes the driver primitive of its
\* name exactly once, with the call's arguments followed by one completion
\* callback; the promise it returned settles at most once whatever the driver
\* does, and exactly once when the driver invokes the callback: rejected with
\* the error when the callback reports one, resolved with the rows otherwise.
C6_PromiseLayer ==
    \A c \in 1..Len(calls) :
        calls[c].op \in PromisedMethods
        => /\ Count(calls[c].log, "driver") <= 1
           /\ ~Scheduled(c) => Count(calls[c].log, "driver") = 1
           /\ \A i \in Idx(calls[c].log, "driver") :
                 /\ calls[c].log[i].name = calls[c].op
                 /\ calls[c].log[i].args = calls[c].args \o <<Fn(<<"callback">>)>>
           /\ Count(calls[c].log, "settle") <= 1
           /\ Settled(calls[c]) <=> Count(calls[c].log, "settle") = 1
           /\ Idx(calls[c].log, "callback") # {}
                 => /\ Count(calls[c].log, "settle") = 1
                    /\ calls[c].result = FirstReport(calls[c].log)

\* a wrapper whose callback the driver invoked twice, rows first, resolved;
\* and one whose callback reported an error first, rejected
C6_CallbackInvokedTwice ==
    /\ \E c \in 1..Len(calls) :
          /\ calls[c].op \in PromisedMethods
          /\ Count(calls[c].log, "callback") = 2
          /\ calls[c].result.state = "resolved"
    /\ \E c \in 1..Len(calls) :
          /\ calls[c].op \in PromisedMethods
          /\ Count(calls[c].log, "callback") >= 1
          /\ calls[c].result.state = "rejected"

(***************************************************************************)
(* replace                                                                 *)
(***************************************************************************)
\* the lookup's answer arrived before position i of the log, without an
\* error, and held a row (found) or none
FoundBefore(log, i, found) ==
    /\ Idx(log, "callback") # {}
    /\ FirstOf(Idx(log, "callback")) < i
    /\ ~Truthy(log[FirstOf(Idx(log, "callback"))].err)
    /\ log[FirstOf(Idx(log, "callback"))].rows.t = "arr"
    /\ (log[FirstOf(Idx(log, "callback"))].rows.v # <<>>) = found

WriteCalls(log) == Invoked(log, "update") \cup Invoked(log, "insert")

\* the answer to the write decides the promise of replace
SettlesAsWrite(cr) ==
    /\ \A w \in Writes(cr.log), k \in Idx(cr.log, "callback") :
          (w < k /\ ~\E j \in Idx(cr.log, "callback") : w < j /\ j < k)
          => cr.result = CallbackOutcome(cr.log[k].err, cr.log[k].rows)
    /\ cr.result.state = "resolved" => Writes(cr.log) # {}
    /\ \A errors \in Violations(cr) : FailedWith(cr, errors)

Routed(cr, condition, data, supplied) ==
    /\ \E i \in Invoked(cr.log, "find") :
          /\ cr.log[i].args = <<condition>>
          /\ \A j \in WriteCalls(cr.log) : i < j
    /\ Cardinality(WriteCalls(cr.log)) <= 1
    /\ \A i \in Invoked(cr.log, "update") :
          /\ cr.log[i].args = <<condition, data, supplied>>
          /\ FoundBefore(cr.log, i, TRUE)
    /\ \A i \in Invoked(cr.log, "insert") :
          /\ cr.log[i].args = <<data, supplied>>
          /\ FoundBefore(cr.log, i, FALSE)
    /\ (Idx(cr.log, "callback") # {} /\ ~Truthy(cr.log[FirstOf(Idx(cr.log, "callback"))].err))
          => WriteCalls(cr.log) # {}
    /\ \A w \in Writes(cr.log) : \E k \in Idx(cr.log, "callback") : k < w
    /\ SettlesAsWrite(cr)

\* C7: replace(data) first looks up the row of the primary-key condition
\* resolved from data; when the lookup returns a row it invokes update with
\* that condition and data and never insert, when it returns none it invokes
\* insert with the full data and never update; the write is dispatched only
\* after the lookup's answer, and the promise of replace settles with the
\* outcome of the write.
C7_ReplaceRoutesByLookup ==
    \A c \in 1..Len(calls) :
        (calls[c].op = "replace" /\ buildPkCondition(Arg(calls[c].args, 1)).kind = "return")
        => Routed(calls[c], buildPkCondition(Arg(calls[c].args, 1)).value,
                  Arg(BridgeArgs(calls[c].args), 1), Arg(BridgeArgs(calls[c].args), 2))

\* one replace that found its row, updated and resolved, and one that found
\* none, inserted and resolved
C7_BothRoutesTaken ==
    /\ \E c \in 1..Len(calls) :
          /\ calls[c].op = "replace"
          /\ Invoked(calls[c].log, "update") # {}
          /\ Statements(calls[c].log, {"UPDATE "}) # {}
          /\ calls[c].result.state = "resolved"
    /\ \E c \in 1..Len(calls) :
          /\ calls[c].op = "replace"
          /\ Invoked(calls[c].log, "insert") # {}
          /\ Statements(calls[c].log, {"INSERT INTO "}) # {}
          /\ calls[c].result.state = "resolved"

\* the primary key of the record a replace call was given
KeyOf(cr) == Get(Arg(cr.args, 1), PropertyKey(pk))

\* C10: of two replace calls made concurrently with records of the same
\* primary key, no row of which exists beforehand, at most one passes an
\* INSERT to the driver, whatever the order of the driver's completions.
C10_AtMostOneInsert ==
    \A c1 \in 1..Len(calls), c2 \in 1..Len(calls) :
        (/\ c1 < c2
         /\ calls[c1].op = "replace" /\ calls[c2].op = "replace"
         /\ c1 \in calls[c2].during
         /\ KeyOf(calls[c1]) = Num(99) /\ KeyOf(calls[c2]) = Num(99))
        => ~(/\ Statements(calls[c1].log, {"INSERT INTO "}) # {}
             /\ Statements(calls[c2].log, {"INSERT INTO "}) # {})

(***************************************************************************)
(* The pure functions                                                      *)
(***************************************************************************)
\* C8: for a non-empty condition string that is not primary-key-shaped the
\* condition compiler returns " WHERE " followed by the string unchanged and
\* does not fail.
C8_RawStringPassesThrough ==
    (/\ fnCall.fn = "compileConditions"
     /\ isString(fnCall.arg)
     /\ fnCall.arg.v # <<>>
     /\ ~PkShaped(fnCall.arg.v))
    => fnCall.res = Return(<<" WHERE ">> \o fnCall.arg.v)

\* field i of the key is present in the record: by name in a mapping, by
\* position in a sequence
Present(p, data, i) ==
    IF data.t = "map" THEN \E j \in 1..Len(data.v) : data.v[j][1] = p.v[i].v
    ELSE i <= Len(data.v)

ValueAt(p, data, i) == IF data.t = "map" THEN Get(data, p.v[i].v) ELSE data.v[i]

\* C9: with a composite primary key the resolver returns the mapping from
\* each listed field to the record's value for it, by name for a mapping and
\* by position for a sequence, whenever every listed field is present,
\* whatever its value; it fails with invalid_call exactly when a listed field
\* is absent or the record is neither a mapping nor a sequence.
C9_CompositeResolver ==
    (fnCall.fn = "buildPkCondition" /\ isArray(pk))
    => IF /\ fnCall.arg.t \in {"map", "arr"}
          /\ \A i \in 1..Len(pk.v) : Present(pk, fnCall.arg, i)
       THEN fnCall.res
               = Return(Map([i \in 1..Len(pk.v) |-> <<pk.v[i].v, ValueAt(pk, fnCall.arg, i)>>]))
       ELSE /\ fnCall.res.kind = "throw"
            /\ fnCall.res.error.name = "DbError"
            /\ fnCall.res.error.message = "invalid_call"

====
